---- MODULE Spec2Model ----
(***************************************************************************)
(* Promptious Optimizer: a model of the optimization command of the two    *)
(* revisions of the extension found in the repository,                     *)
(*   - src/src/extension.ts   (axios, history ledger, JSON-aware reply),   *)
(*   - src/unnamed/part_000   (built-in fetch, no ledger),                 *)
(* of the history ledger and of the clear-history command.                 *)
(*                                                                         *)
(* Texts are sequences of lexemes (TLA+ strings).  A lexeme is a run of    *)
(* characters that the code never splits: a white-space character, a JSON  *)
(* punctuation mark, a JSON literal, or a plain word.                      *)
(***************************************************************************)
EXTENDS Integers, Sequences, FiniteSets, TLC

(***************************************************************************)
(* Bounds of the model and constants of the program.                       *)
(***************************************************************************)
\* invocations of the optimize command that one behaviour starts
MaxInv == 2
\* the latest date (new Date()) a behaviour reaches
MaxNow == 1
\* const MAX_HISTORY_SIZE = 100;
MAX_HISTORY_SIZE == 100
\* const MAX_PROMPT_LENGTH = 10000;
MAX_PROMPT_LENGTH == 10000

Invs == 1..MaxInv

(***************************************************************************)
(* Lexemes and string operations of the reply handling.                    *)
(***************************************************************************)
WhiteSpace == {" ", "\n"}

\* JSON string literals the model uses, with the text JSON.parse decodes
\* each of them to
StrLits ==
  { "\"optimized_prompt\"", "\"explanation\"", "\"applied_techniques\"",
    "\"improvement_score\"", "\"X\"", "\" X\"", "\"E\"", "\"\"" }

StrContent(lit) ==
  CASE lit = "\"optimized_prompt\""   -> <<"optimized_prompt">>
    [] lit = "\"explanation\""        -> <<"explanation">>
    [] lit = "\"applied_techniques\"" -> <<"applied_techniques">>
    [] lit = "\"improvement_score\""  -> <<"improvement_score">>
    [] lit = "\"X\""                  -> <<"X">>
    [] lit = "\" X\""                 -> <<" ", "X">>
    [] lit = "\"E\""                  -> <<"E">>
    [] lit = "\"\""                   -> <<>>
    [] OTHER                          -> <<lit>>

\* other JSON values: numbers, an array of technique objects, null
NumLits == {"0", "0.9"}
ArrLits == {"[]", "[{\"name\":\"CoT\"}]"}
JsonValues == StrLits \cup NumLits \cup ArrLits \cup {"null"}

\* String.prototype.trim(): drops leading and trailing white space
RECURSIVE TrimStart(_)
TrimStart(s) ==
  IF s # <<>> /\ Head(s) \in WhiteSpace THEN TrimStart(Tail(s)) ELSE s

RECURSIVE TrimEnd(_)
TrimEnd(s) ==
  IF s # <<>> /\ s[Len(s)] \in WhiteSpace
  THEN TrimEnd(SubSeq(s, 1, Len(s) - 1)) ELSE s

Trim(s) == TrimEnd(TrimStart(s))

\* the characters of a text: its lexemes joined into one string
RECURSIVE Flatten(_)
Flatten(s) == IF s = <<>> THEN "" ELSE Head(s) \o Flatten(Tail(s))

\* text.length
TextLength(s) == Len(Flatten(s))

\* the lower-case form of one character
LowerChar(c) ==
  CASE c = "A" -> "a" [] c = "B" -> "b" [] c = "C" -> "c" [] c = "D" -> "d"
    [] c = "E" -> "e" [] c = "F" -> "f" [] c = "G" -> "g" [] c = "H" -> "h"
    [] c = "I" -> "i" [] c = "J" -> "j" [] c = "K" -> "k" [] c = "L" -> "l"
    [] c = "M" -> "m" [] c = "N" -> "n" [] c = "O" -> "o" [] c = "P" -> "p"
    [] c = "Q" -> "q" [] c = "R" -> "r" [] c = "S" -> "s" [] c = "T" -> "t"
    [] c = "U" -> "u" [] c = "V" -> "v" [] c = "W" -> "w" [] c = "X" -> "x"
    [] c = "Y" -> "y" [] c = "Z" -> "z" [] OTHER -> c

\* String.prototype.toLowerCase() on a string of characters
RECURSIVE ToLowerCase(_)
ToLowerCase(str) ==
  IF Len(str) = 0 THEN ""
  ELSE IF Len(str) = 1 THEN LowerChar(str)
  ELSE LET half == Len(str) \div 2
       IN  ToLowerCase(SubSeq(str, 1, half))
             \o ToLowerCase(SubSeq(str, half + 1, Len(str)))

\* a string of n copies of the character c
RECURSIVE Repeat(_, _)
Repeat(c, n) ==
  IF n <= 0 THEN ""
  ELSE IF n = 1 THEN c
  ELSE Repeat(c, n \div 2) \o Repeat(c, n - (n \div 2))

\* String.prototype.includes(key) on a string of characters
Includes(str, key) ==
  \E i \in 1..(Len(str) - Len(key) + 1) : SubSeq(str, i, i + Len(key) - 1) = key

\* optimizedPrompt.startsWith('{')
StartsWithBrace(s) == s # <<>> /\ s[1] = "{"

\* optimizedPrompt.includes('optimized_prompt'): the lexemes that hold the
\* substring are the key literal and the plain word
IncludesKey(s) ==
  \E i \in 1..Len(s) : s[i] \in {"\"optimized_prompt\"", "optimized_prompt"}

(***************************************************************************)
(* JSON.parse on a lexeme sequence: white space between lexemes is         *)
(* skipped; an object is "{" [member ("," member)*] "}" with member =      *)
(* string ":" value.  The result is the list of <<key literal, value>>     *)
(* members, or a failure (the SyntaxError that JSON.parse throws).         *)
(***************************************************************************)
IsNotWs(c) == c \notin WhiteSpace

RECURSIVE ParseMembers(_)
ParseMembers(m) ==
  IF Len(m) < 3 \/ m[1] \notin StrLits \/ m[2] # ":" \/ m[3] \notin JsonValues
  THEN [ok |-> FALSE, members |-> <<>>]
  ELSE IF Len(m) = 3
  THEN [ok |-> TRUE, members |-> << <<m[1], m[3]>> >>]
  ELSE IF m[4] # ","
  THEN [ok |-> FALSE, members |-> <<>>]
  ELSE LET rest == ParseMembers(SubSeq(m, 5, Len(m)))
       IN  IF rest.ok
           THEN [ok |-> TRUE,
                 members |-> << <<m[1], m[3]>> >> \o rest.members]
           ELSE rest

JSONParse(s) ==
  LET t == SelectSeq(s, IsNotWs)
  IN  IF Len(t) < 2 \/ t[1] # "{" \/ t[Len(t)] # "}"
      THEN [ok |-> FALSE, members |-> <<>>]
      ELSE IF Len(t) = 2
      THEN [ok |-> TRUE, members |-> <<>>]
      ELSE ParseMembers(SubSeq(t, 2, Len(t) - 1))

\* property access obj.key: the value of the last member whose key literal
\* is key, or "undefined"
RECURSIVE Field(_, _)
Field(members, key) ==
  IF members = <<>> THEN "undefined"
  ELSE IF members[Len(members)][1] = key THEN members[Len(members)][2]
  ELSE Field(SubSeq(members, 1, Len(members) - 1), key)

\* JavaScript truthiness of a JSON value
Falsy == {"undefined", "null", "\"\"", "0"}

\* the text a JSON value is as a JavaScript value
ValueText(v) == IF v \in StrLits THEN StrContent(v) ELSE <<v>>

(***************************************************************************)
(* The reply handling of optimizeText (extension.ts, 291-312).             *)
(***************************************************************************)
\* a variant without the fall-back to the trimmed text: a reply that looks
\* like the envelope and yields no optimized text gives the empty text
InterpretReplyNoFallback(content) ==
  LET trimmed == Trim(content)
      parsed  == JSONParse(trimmed)
      field   == Field(parsed.members, "\"optimized_prompt\"")
  IN  IF StartsWithBrace(trimmed) /\ IncludesKey(trimmed)
      THEN IF parsed.ok /\ field \notin Falsy THEN ValueText(field) ELSE <<>>
      ELSE trimmed

\* a variant that does not trim the completion
InterpretReplyUntrimmed(content) ==
  LET parsed == JSONParse(content)
      field  == Field(parsed.members, "\"optimized_prompt\"")
  IN  IF StartsWithBrace(content) /\ IncludesKey(content)
         /\ parsed.ok /\ field \notin Falsy
      THEN ValueText(field)
      ELSE content

\* let optimizedPrompt = content.trim(); if it starts with '{' and includes
\* 'optimized_prompt', try JSON.parse and take
\* jsonResponse.optimized_prompt || optimizedPrompt; a parse error is caught
\* and leaves the trimmed text
InterpretReply(content) ==
  LET trimmed == Trim(content)
      parsed  == JSONParse(trimmed)
      field   == Field(parsed.members, "\"optimized_prompt\"")
  IN  IF StartsWithBrace(trimmed) /\ IncludesKey(trimmed)
         /\ parsed.ok /\ field \notin Falsy
      THEN ValueText(field)
      ELSE trimmed

\* const optimizationResult: OptimizationResponse = {...}
OptimizationResult(content) ==
  [ optimized_prompt   |-> InterpretReply(content),
    applied_techniques |-> <<>>,
    explanation        |-> <<>>,
    improvement_score  |-> "0" ]

\* the reply handling of optimizePrompt (part_000, 250-251)
FetchReplyText(content) == Trim(content)

(***************************************************************************)
(* The history ledger (extension.ts, 314-327).                             *)
(***************************************************************************)
\* a variant that removes the newest record (pop) instead of the oldest
PushHistoryPop(h, rec) ==
  LET pushed == Append(h, rec)
  IN  IF Len(pushed) > MAX_HISTORY_SIZE
      THEN SubSeq(pushed, 1, Len(pushed) - 1) ELSE pushed

\* a variant that puts the record first (unshift) and removes the last one
PushHistoryFront(h, rec) ==
  LET pushed == <<rec>> \o h
  IN  IF Len(pushed) > MAX_HISTORY_SIZE
      THEN SubSeq(pushed, 1, Len(pushed) - 1) ELSE pushed

\* history.push(record); if (history.length > MAX_HISTORY_SIZE) history.shift()
PushHistory(h, rec) ==
  LET pushed == Append(h, rec)
  IN  IF Len(pushed) > MAX_HISTORY_SIZE THEN Tail(pushed) ELSE pushed

(***************************************************************************)
(* What the remote call can end in.                                        *)
(*   kind    "ok"        a 2xx answer whose first choice holds content     *)
(*           "nochoices" a 2xx answer with no usable choices[0].message    *)
(*                       (reading it throws a TypeError)                   *)
(*           "error"     the call rejected, or answered a non-2xx status   *)
(*   code    the error's code ("" when it has none)                        *)
(*   status  the HTTP status of the answer (0: no answer was received)     *)
(*   svc     the error field of the answer's body: "none", "object" (an    *)
(*           object with a message) or "string"                            *)
(***************************************************************************)
Outcome(kind, content, code, status, svc, message) ==
  [ kind |-> kind, content |-> content, code |-> code, status |-> status,
    svc |-> svc, message |-> message ]

\* the completions a behaviour can receive; the raw text is content
Replies ==
  { <<"X">>,                                            \* plain text
    <<" ", "X", "\n">>,                                \* plain text in white space
    <<"X", " ", "optimized_prompt">>,                  \* plain text naming the key
    <<" ">>,                                           \* white space only
    <<"{", "\"optimized_prompt\"", ":", "\"X\"", "}">>,
    <<"{", "\"optimized_prompt\"", ":", "\" X\"", "}", "\n">>,
    <<"{", "\"optimized_prompt\"", ":", "\"\"", "}">>, \* empty optimized text
    <<"{", "\"explanation\"", ":", "\"E\"", "}">>,     \* JSON without the key
    <<"{", "\"optimized_prompt\"", ":", "\"X\"", ",",
      "\"applied_techniques\"", ":", "[{\"name\":\"CoT\"}]", ",",
      "\"explanation\"", ":", "\"E\"", ",",
      "\"improvement_score\"", ":", "0.9", "}">>,      \* the full envelope
    <<"{", "\"optimized_prompt\"", ":", "\"X\"">>,     \* cut short
    <<"{", "optimized_prompt", ":", "X", "}">> }       \* unquoted: not JSON

ServiceMessage == "svc message"
ServiceText == "svc text"

\* what axios.post ends in (extension.ts, 267-287): an answer, a transport
\* error carrying a code and no answer, or an answered non-2xx status
AxiosOutcomes ==
  { Outcome("ok", c, "", 200, "none", "") : c \in Replies }
  \cup { Outcome("nochoices", <<>>, "", 200, "none", "no choices") }
  \cup { Outcome("error", <<>>, c, 0, "none", "transport failed") :
           c \in {"ECONNABORTED", "ETIMEDOUT", "ENOTFOUND", "ECONNREFUSED", "ECONNRESET"} }
  \cup { Outcome("error", <<>>, "ERR_BAD_REQUEST", st, svc, "Request failed") :
           st \in {401, 429, 402, 404}, svc \in {"none", "object"} }
  \cup { Outcome("error", <<>>, "ERR_BAD_RESPONSE", 500, svc, m) :
           svc \in {"none", "string"}, m \in {"", "Request failed"} }

\* what fetch ends in (part_000, 218-248): an answer of any status, or a
\* rejection (TypeError: fetch failed); the call sets no timeout
FetchOutcomes ==
  { Outcome("ok", c, "", 200, "none", "") : c \in Replies }
  \cup { Outcome("nochoices", <<>>, "", 200, "none", "no choices") }
  \cup { Outcome("error", <<>>, "", 0, "none", "fetch failed") }
  \cup { Outcome("error", <<>>, "", st, svc, "Status Text") :
           st \in {401, 429, 402, 500}, svc \in {"none", "object"} }
  \cup { Outcome("error", <<>>, "", 500, "string", "Status Text") }

\* the outcomes that the behaviours with several invocations draw from
CoreReplies ==
  { <<"X">>, <<" ">>, <<"{", "\"optimized_prompt\"", ":", "\" X\"", "}", "\n">> }

CoreAxiosOutcomes ==
  { o \in AxiosOutcomes :
      \/ o.kind = "ok" /\ o.content \in CoreReplies
      \/ o.code = "ECONNABORTED"
      \/ o.status = 401 /\ o.svc = "object" }

CoreFetchOutcomes ==
  { o \in FetchOutcomes :
      \/ o.kind = "ok" /\ o.content \in CoreReplies
      \/ o.kind = "error" /\ o.status = 0
      \/ o.status = 401 /\ o.svc = "object" }

(***************************************************************************)
(* The messages shown.                                                     *)
(***************************************************************************)
NoMessage == ""
MissingKeyText == "(key) OpenAI API key not configured. Please set it in settings."
FetchMissingKeyText == "OpenAI API key not configured. Please set it in settings."
CopiedText == "Prompt optimized and copied to clipboard"
OptimizedText == "Prompt optimized successfully"
FetchCopiedText == "Prompt optimized and copied to clipboard!"
FetchOptimizedText == "Prompt optimized!"
TimedOutText == "Request timed out. Please check your internet connection and try again."
UnreachableText == "Cannot connect to OpenAI API. Please check your internet connection."
AuthFailedText == "Authentication failed. Please check your OpenAI API key."
RateLimitedText == "Rate limit exceeded. Please try again later or upgrade your OpenAI plan."
PaymentText == "Payment required. Please add credits to your OpenAI account."
CheckKeyText == "Please check your OpenAI API key and try again."
NoPromptText == "No optimized prompt received from OpenAI"
ClipboardErrorText == "clipboard unavailable"
FetchInvalidKeyText == "Invalid API key. Please check your OpenAI API key in settings."
FetchRateLimitedText == "Rate limit exceeded. Please try again later."

\* a variant that prefers the message of the error object to the answer's body
ErrorMessageOwnFirst(error) ==
  "Failed to optimize prompt. " \o
  ( IF error.code \in {"ECONNABORTED", "ETIMEDOUT"} THEN TimedOutText
    ELSE IF error.code \in {"ENOTFOUND", "ECONNREFUSED"} THEN UnreachableText
    ELSE IF error.status = 401 THEN AuthFailedText
    ELSE IF error.status = 429 THEN RateLimitedText
    ELSE IF error.status = 402 THEN PaymentText
    ELSE IF error.message # "" THEN error.message
    ELSE IF error.svc = "object" THEN ServiceMessage
    ELSE IF error.svc = "string" THEN ServiceText
    ELSE CheckKeyText )

\* the catch block of optimizeText (extension.ts, 338-360)
ErrorMessage(error) ==
  "Failed to optimize prompt. " \o
  ( IF error.code \in {"ECONNABORTED", "ETIMEDOUT"} THEN TimedOutText
    ELSE IF error.code \in {"ENOTFOUND", "ECONNREFUSED"} THEN UnreachableText
    ELSE IF error.status = 401 THEN AuthFailedText
    ELSE IF error.status = 429 THEN RateLimitedText
    ELSE IF error.status = 402 THEN PaymentText
    ELSE IF error.svc = "object" THEN ServiceMessage
    ELSE IF error.svc = "string" THEN ServiceText
    ELSE IF error.message # "" THEN error.message
    ELSE CheckKeyText )

\* an Error thrown inside the try block: it has a message and nothing else
Thrown(message) == Outcome("error", <<>>, "", 0, "none", message)

\* the Error that optimizePrompt throws on a non-2xx answer (part_000,
\* 239-248), or the rejection of fetch itself
FetchThrown(o) ==
  IF o.status = 0 THEN o.message
  ELSE IF o.status = 401 THEN FetchInvalidKeyText
  ELSE IF o.status = 429 THEN FetchRateLimitedText
  ELSE "OpenAI API error: " \o
       (IF o.svc = "object" THEN ServiceMessage ELSE o.message)

\* the catch block of optimizePrompt (part_000, 273-276)
FetchErrorMessage(message) == "Error optimizing prompt: " \o message

(***************************************************************************)
(* State.                                                                  *)
(***************************************************************************)
VARIABLES
  revision,     \* which revision of the extension is installed
  config,       \* the promptious settings
  history,      \* optimizationHistory of activate (extension.ts, 97)
  clipboard,    \* the text on the system clipboard
  inv,          \* the invocations of the optimize command
  clearDialog,  \* whether the warning of clearOptimizationHistory is open
  now,          \* the time that new Date() returned last
  remote,       \* whether the remote service answers the requests it receives
  document,     \* the sections of the history document opened last
  call          \* the latest call of a helper function: name, argument, result

vars ==
  <<revision, config, history, clipboard, inv, clearDialog, now, remote,
    document, call>>

Revisions == {"extension", "part_000"}

\* config.get<string>('apiKey'): unset, empty or set
ApiKeys == {"undefined", "", "sk-key"}

\* the model chosen in the settings ('preferredModel' in extension.ts, 'model'
\* in part_000): not set, or set to a model
Models == {"undefined", "gpt-4"}

Configs ==
  [ apiKey : ApiKeys, autoCopy : BOOLEAN, showNotifications : BOOLEAN,
    model : Models ]

\* config.get<string>(key, 'gpt-3.5-turbo')
ConfiguredModel(cfg) ==
  IF cfg.model = "undefined" THEN "gpt-3.5-turbo" ELSE cfg.model

\* a variant that only tests for an unset key
NoApiKeyUnsetOnly(cfg) == cfg.apiKey = "undefined"

\* if (!apiKey)
NoApiKey(cfg) == cfg.apiKey \in {"undefined", ""}

\* the texts handed to the optimize command
Prompts == { <<"P">>, <<"Q", " ", "Q">> }

\* a text of MAX_PROMPT_LENGTH + 1 characters
LongText == << Repeat("x", MAX_PROMPT_LENGTH + 1) >>

\* the texts a user selects in the editor or types into an input box: the
\* prompts, the empty text, a blank text and a text that is too long
EntryTexts == Prompts \cup { <<>>, <<" ">>, LongText }

\* what the user does with an input box: dismisses it (no text), or types a
\* text and presses Enter
Typed(texts) == { {} } \cup { {t} : t \in texts }

NoOutcome == Outcome("none", <<>>, "", 0, "none", "")

\* an invocation before the command runs
Idle ==
  [ pc       |-> "idle",     \* idle, request, clipboard, done
    text     |-> <<>>,       \* the text to optimize
    requests |-> 0,          \* requests sent to the endpoint
    model    |-> "",         \* the model named in the request sent
    got      |-> NoOutcome,  \* what the request ended in
    result   |-> <<>>,       \* the optimized text being presented
    appended |-> 0,          \* records pushed to the history
    error    |-> NoMessage,  \* the error message shown
    info     |-> NoMessage ] \* the information message shown

\* a variant that keeps the text to optimize in one place shared by all
\* invocations: the record holds the text of the invocation started last
HistoryRecordSharedText(text, result, t) ==
  LET started == {j \in DOMAIN inv : inv[j].pc # "idle"}
      latest  == CHOOSE j \in started : \A k \in started : k <= j
  IN  [ original   |-> IF started = {} THEN text ELSE inv[latest].text,
        optimized  |-> result.optimized_prompt,
        techniques |-> <<>>,
        timestamp  |-> t,
        score      |-> result.improvement_score ]

\* the record that history.push receives
HistoryRecord(text, result, t) ==
  [ original   |-> text,
    optimized  |-> result.optimized_prompt,
    techniques |-> <<>>,
    timestamp  |-> t,
    score      |-> result.improvement_score ]

\* the history after n optimizations of alternating prompts that each
\* received the plain reply X at time 0
PastRecord(k) ==
  HistoryRecord(IF k % 2 = 1 THEN <<"P">> ELSE <<"Q", " ", "Q">>,
                OptimizationResult(<<"X">>), 0)

PastHistory(n) == [k \in 1..n |-> PastRecord(k)]

\* no helper function has been called
NoCall == [fn |-> "none", arg |-> <<>>, ret |-> <<>>]

\* activate(): an empty history, no command running
Init ==
  /\ revision \in Revisions
  /\ config \in Configs
  /\ history = <<>>
  /\ clipboard = <<"old">>
  /\ inv = [i \in Invs |-> Idle]
  /\ clearDialog = FALSE
  /\ now = 0
  /\ remote = "answers"
  /\ document = <<>>
  /\ call = NoCall

\* the settings of the behaviours with several invocations: no model chosen
CoreConfigs == {c \in Configs : c.model = "undefined"}

\* activate(), with one of these settings
InitCore ==
  /\ revision \in Revisions
  /\ config \in CoreConfigs
  /\ history = <<>>
  /\ clipboard = <<"old">>
  /\ inv = [i \in Invs |-> Idle]
  /\ clearDialog = FALSE
  /\ now = 0
  /\ remote = "answers"
  /\ document = <<>>
  /\ call = NoCall

\* the remote service answers the requests it receives, or it accepts them
\* and never answers
Remotes == {"answers", "silent"}

\* activate(), with a remote service of either kind
InitLive ==
  /\ revision \in Revisions
  /\ config \in CoreConfigs
  /\ history = <<>>
  /\ clipboard = <<"old">>
  /\ inv = [i \in Invs |-> Idle]
  /\ clearDialog = FALSE
  /\ now = 0
  /\ remote \in Remotes
  /\ document = <<>>
  /\ call = NoCall

\* the extension of extension.ts with a key set and an empty history
InitHistory ==
  /\ revision = "extension"
  /\ config \in {c \in CoreConfigs : c.apiKey = "sk-key" /\ c.showNotifications}
  /\ history = <<>>
  /\ clipboard = <<"old">>
  /\ inv = [i \in Invs |-> Idle]
  /\ clearDialog = FALSE
  /\ now = 0
  /\ remote = "answers"
  /\ document = <<>>
  /\ call = NoCall

\* the extension of extension.ts with a key set, after MAX_HISTORY_SIZE - 1
\* optimizations
InitFull ==
  /\ revision = "extension"
  /\ config \in {c \in CoreConfigs : c.apiKey = "sk-key" /\ c.showNotifications}
  /\ inv = [i \in Invs |-> Idle]
  /\ history = PastHistory(MAX_HISTORY_SIZE - 1)
  /\ clipboard = <<"old">>
  /\ clearDialog = FALSE
  /\ now = 0
  /\ remote = "answers"
  /\ document = <<>>
  /\ call = NoCall

(***************************************************************************)
(* activate(): the commands that vscode.commands.registerCommand received. *)
(***************************************************************************)
RegisteredCommands(rev) ==
  IF rev = "extension"
  THEN { "promptious.optimizePrompt", "promptious.optimizeSelection",
         "promptious.showHistory", "promptious.configureSettings",
         "promptious.testLightbulb", "promptious.clearHistory" }
  ELSE { "promptious.optimizePrompt", "promptious.optimizeSelection",
         "promptious.openSettings" }

(***************************************************************************)
(* The input box and the tests of the entry handlers.                      *)
(***************************************************************************)
\* selectedText.trim() is truthy
NotBlank(text) == Trim(text) # <<>>

\* validateInput of handleOptimizePrompt returns null
PromptInputValid(value) ==
  /\ ~(value = <<>> \/ TextLength(Trim(value)) < 3)
  /\ ~(TextLength(value) > MAX_PROMPT_LENGTH)

\* validateInput of handleOptimizeSelection returns null
SelectionInputValid(text) == ~(text = <<>> \/ TextLength(Trim(text)) < 3)

\* showInputBox: the box returns the typed text unless validateInput
\* rejects it (rejected: the texts it returns a message for); a dismissed
\* box, or one whose text is never accepted, returns undefined (no text)
ShowInputBox(typed, rejected) == typed \ rejected

(***************************************************************************)
(* optimizeText (extension.ts, 223-368).                                   *)
(***************************************************************************)
\* a variant that sends the request again after it failed
FailsAndRetries(v, message) ==
  IF v.pc = "request" /\ v.got.kind = "error" /\ v.requests < 2
  THEN [v EXCEPT !.requests = @ + 1]
  ELSE [v EXCEPT !.pc = "done", !.error = message]

\* the invocation ends showing an error message
Fails(v, message) == [v EXCEPT !.pc = "done", !.error = message]

\* from the call to the await of axios.post, or to the missing-key return
OptimizeText(i, text) ==
  /\ revision = "extension"
  /\ inv[i].pc = "idle"
  /\ inv' = [inv EXCEPT ![i] =
       IF NoApiKey(config)
       THEN Fails([@ EXCEPT !.text = text], MissingKeyText)
       ELSE [@ EXCEPT !.text = text, !.pc = "request", !.requests = @ + 1,
                      !.model = "gpt-3.5-turbo"]]
  /\ UNCHANGED <<revision, config, history, clipboard, clearDialog, now, remote, document, call>>

\* handleOptimizePrompt (extension.ts, 156-189): the selection of the active
\* editor when it is not blank, otherwise the text of the input box
HandleOptimizePrompt(i, editor, selected, typed) ==
  /\ "promptious.optimizePrompt" \in RegisteredCommands(revision)
  /\ IF editor /\ NotBlank(selected)
     THEN OptimizeText(i, selected)
     ELSE \E prompt \in ShowInputBox(typed, {v \in typed : ~PromptInputValid(v)}) :
            prompt # <<>> /\ OptimizeText(i, prompt)

\* handleOptimizeSelection (extension.ts, 191-221)
HandleOptimizeSelection(i, editor, selected, typed) ==
  /\ "promptious.optimizeSelection" \in RegisteredCommands(revision)
  /\ IF editor /\ NotBlank(selected)
     THEN OptimizeText(i, selected)
     ELSE \E userInput \in ShowInputBox(typed, {v \in typed : ~SelectionInputValid(v)}) :
            userInput # <<>> /\ OptimizeText(i, userInput)

\* showOptimizationResults up to the await of clipboard.writeText, or to its
\* end when autoCopy is off (extension.ts, 370-385)
ShowOptimizationResults(v, result) ==
  LET optimizedPrompt ==
        IF result.optimized_prompt # <<>> THEN result.optimized_prompt ELSE v.text
  IN  IF config.autoCopy
      THEN [v EXCEPT !.pc = "clipboard", !.result = optimizedPrompt]
      ELSE [v EXCEPT !.pc = "done", !.result = optimizedPrompt,
                     !.info = IF config.showNotifications THEN OptimizedText
                              ELSE NoMessage]

\* new Date(): the clock does not run backwards
Dates == now..MaxNow

\* what the timer of axios ends the request in (timeout: REQUEST_TIMEOUT)
TimeoutOutcome == Outcome("error", <<>>, "ECONNABORTED", 0, "none", "transport failed")

\* axios.post settles: the reply is interpreted, stored with the date and
\* presented, or the catch block shows the error; a request that the remote
\* service never answers is ended by the timer
AxiosSettles(i, o, date) ==
  /\ revision = "extension"
  /\ inv[i].pc = "request"
  /\ o \in AxiosOutcomes
  /\ remote = "silent" => o = TimeoutOutcome
  /\ date \in Dates
  /\ LET v      == [inv[i] EXCEPT !.got = o]
         result == OptimizationResult(o.content)
     IN  IF o.kind = "error"
         THEN /\ inv' = [inv EXCEPT ![i] = Fails(v, ErrorMessage(o))]
              /\ UNCHANGED <<history, now>>
         ELSE IF o.kind = "nochoices"
         THEN /\ inv' = [inv EXCEPT ![i] = Fails(v, ErrorMessage(Thrown(o.message)))]
              /\ UNCHANGED <<history, now>>
         ELSE IF result.optimized_prompt # <<>>
         THEN /\ history' = PushHistory(history, HistoryRecord(v.text, result, date))
              /\ now' = date
              /\ inv' = [inv EXCEPT ![i] =
                   ShowOptimizationResults([v EXCEPT !.appended = @ + 1], result)]
         ELSE /\ inv' = [inv EXCEPT ![i] = Fails(v, ErrorMessage(Thrown(NoPromptText)))]
              /\ UNCHANGED <<history, now>>
  /\ UNCHANGED <<revision, config, clipboard, clearDialog, remote, document, call>>

\* clipboard.writeText settles: the text is on the clipboard and the
\* notification is shown, or the rejection reaches the catch block
ClipboardSettles(i, ok) ==
  /\ revision = "extension"
  /\ inv[i].pc = "clipboard"
  /\ IF ok
     THEN /\ clipboard' = inv[i].result
          /\ inv' = [inv EXCEPT ![i] =
               [@ EXCEPT !.pc = "done",
                         !.info = IF config.showNotifications THEN CopiedText
                                  ELSE NoMessage]]
     ELSE /\ clipboard' = clipboard
          /\ inv' = [inv EXCEPT ![i] =
               Fails(@, ErrorMessage(Thrown(ClipboardErrorText)))]
  /\ UNCHANGED <<revision, config, history, clearDialog, now, remote, document, call>>

(***************************************************************************)
(* optimizePrompt (part_000, 185-277).                                     *)
(***************************************************************************)
\* from the call to the await of fetch, or to the missing-key return
OptimizePrompt(i, text) ==
  /\ revision = "part_000"
  /\ inv[i].pc = "idle"
  /\ inv' = [inv EXCEPT ![i] =
       IF NoApiKey(config)
       THEN Fails([@ EXCEPT !.text = text], FetchMissingKeyText)
       ELSE [@ EXCEPT !.text = text, !.pc = "request", !.requests = @ + 1,
                      !.model = ConfiguredModel(config)]]
  /\ UNCHANGED <<revision, config, history, clipboard, clearDialog, now, remote, document, call>>

\* the command promptious.optimizePrompt (part_000, 54-68): the text of an
\* input box without validateInput
OptimizePromptCommand(i, typed) ==
  /\ "promptious.optimizePrompt" \in RegisteredCommands(revision)
  /\ \E prompt \in ShowInputBox(typed, {}) :
       prompt # <<>> /\ OptimizePrompt(i, prompt)

\* the command promptious.optimizeSelection (part_000, 71-90): the selection
\* of the active editor; a blank selection or no editor only shows a warning
OptimizeSelectionCommand(i, editor, selected) ==
  /\ "promptious.optimizeSelection" \in RegisteredCommands(revision)
  /\ editor
  /\ NotBlank(selected)
  /\ OptimizePrompt(i, selected)

\* fetch settles: the trimmed reply is presented, or the catch block shows
\* the error; the call sets no timeout, so a request that the remote service
\* never answers stays pending unless the platform itself rejects it
FetchSettles(i, o) ==
  /\ revision = "part_000"
  /\ inv[i].pc = "request"
  /\ o \in FetchOutcomes
  /\ remote = "silent" => (o.kind = "error" /\ o.status = 0)
  /\ LET v == [inv[i] EXCEPT !.got = o]
     IN  inv' = [inv EXCEPT ![i] =
           IF o.kind = "error"
           THEN Fails(v, FetchErrorMessage(FetchThrown(o)))
           ELSE IF o.kind = "nochoices"
           THEN Fails(v, FetchErrorMessage(o.message))
           ELSE IF config.autoCopy
           THEN [v EXCEPT !.pc = "clipboard", !.result = FetchReplyText(o.content)]
           ELSE [v EXCEPT !.pc = "done", !.result = FetchReplyText(o.content),
                          !.info = IF config.showNotifications
                                   THEN FetchOptimizedText ELSE NoMessage]]
  /\ UNCHANGED <<revision, config, history, clipboard, clearDialog, now, remote, document, call>>

\* clipboard.writeText settles (part_000, 253-270)
FetchClipboardSettles(i, ok) ==
  /\ revision = "part_000"
  /\ inv[i].pc = "clipboard"
  /\ IF ok
     THEN /\ clipboard' = inv[i].result
          /\ inv' = [inv EXCEPT ![i] =
               [@ EXCEPT !.pc = "done",
                         !.info = IF config.showNotifications THEN FetchCopiedText
                                  ELSE NoMessage]]
     ELSE /\ clipboard' = clipboard
          /\ inv' = [inv EXCEPT ![i] =
               Fails(@, FetchErrorMessage(ClipboardErrorText))]
  /\ UNCHANGED <<revision, config, history, clearDialog, now, remote, document, call>>

(***************************************************************************)
(* clearOptimizationHistory (extension.ts, 444-455).                       *)
(***************************************************************************)
\* the command opens the warning and awaits the answer
ClearCommand ==
  /\ revision = "extension"
  /\ "promptious.clearHistory" \in RegisteredCommands(revision)
  /\ ~clearDialog
  /\ clearDialog' = TRUE
  /\ UNCHANGED <<revision, config, history, clipboard, inv, now, remote, document, call>>

\* the user answers "Yes" or "No", or dismisses the warning ("undefined")
ClearAnswers == {"Yes", "No", "undefined"}

\* a variant that clears unless the answer is "No"
ClearedHistoryUnlessNo(h, answer) == IF answer # "No" THEN <<>> ELSE h

\* a variant that keeps the record pushed last, as if it cleared only the
\* records that were there when the warning opened
ClearedHistoryKeepsNewest(h, answer) ==
  IF answer = "Yes" THEN (IF Len(h) > 1 THEN <<h[Len(h)]>> ELSE <<>>) ELSE h

\* if (confirmed === 'Yes') { history.length = 0; ... }
ClearedHistory(h, answer) == IF answer = "Yes" THEN <<>> ELSE h

ClearAnswer(answer) ==
  /\ clearDialog
  /\ clearDialog' = FALSE
  /\ history' = ClearedHistory(history, answer)
  /\ UNCHANGED <<revision, config, clipboard, inv, now, remote, document, call>>

(***************************************************************************)
(* showOptimizationHistory (extension.ts, 393-427).                        *)
(***************************************************************************)
\* item.timestamp.toLocaleString()
ToLocaleString(t) == "1/1/1970, 12:00:0" \o ToString(t) \o " AM"

\* item.score ? (item.score * 100).toFixed(1) : 'N/A'
ScoreText(score) ==
  IF score \in Falsy THEN "N/A" ELSE IF score = "0.9" THEN "90.0" ELSE score

\* the section that history.map builds for item at index
Section(item, index) ==
  [ heading    |-> "## Optimization " \o ToString(index + 1),
    date       |-> ToLocaleString(item.timestamp),
    score      |-> ScoreText(item.score) \o "%",
    techniques |-> item.techniques,
    original   |-> item.original,
    optimized  |-> item.optimized ]

\* history.map((item, index) => ...): the sections in the order of the array
HistoryContent(h) == [k \in 1..Len(h) |-> Section(h[k], k - 1)]

\* the command opens a document with the sections; on an empty history it
\* only shows 'No optimization history found.'
ShowHistoryCommand ==
  /\ "promptious.showHistory" \in RegisteredCommands(revision)
  /\ history # <<>>
  /\ document' = HistoryContent(history)
  /\ UNCHANGED <<revision, config, history, clipboard, inv, clearDialog, now,
                 remote, call>>

(***************************************************************************)
(* provideCodeActions (extension.ts, 65-87 and 684-690; part_000, 19-46).  *)
(***************************************************************************)
\* isPromptLike: the trimmed text has 5 to 500 characters
IsPromptLike(text) ==
  LET trimmed == Trim(text)
  IN  TextLength(trimmed) >= 5 /\ TextLength(trimmed) <= 500

\* the titles of the code actions returned for the selected text
ProvideCodeActions(rev, selectedText) ==
  IF rev = "extension"
  THEN IF NotBlank(selectedText) /\ IsPromptLike(selectedText)
       THEN <<"Optimize with Promptious">> ELSE <<>>
  ELSE IF NotBlank(selectedText)
       THEN <<"Optimize with Promptious">> ELSE <<>>

(***************************************************************************)
(* analyzePromptType (part_000, 107-152).                                  *)
(***************************************************************************)
\* a variant that tests the creative keywords before the coding keywords
PromptTypeCreativeFirst(lowerPrompt) ==
  IF \E key \in {"write", "create", "generate"} : Includes(lowerPrompt, key)
  THEN "creative"
  ELSE IF \E key \in {"code", "program", "function"} : Includes(lowerPrompt, key)
  THEN "coding"
  ELSE IF \E key \in {"explain", "what is", "how does"} : Includes(lowerPrompt, key)
  THEN "explanation"
  ELSE IF \E key \in {"analyze", "compare", "evaluate"} : Includes(lowerPrompt, key)
  THEN "analysis"
  ELSE IF \E key \in {"translate", "convert"} : Includes(lowerPrompt, key)
  THEN "transformation"
  ELSE "general"

\* let type = 'general'; if (...) type = 'coding'; else if ...
PromptType(lowerPrompt) ==
  IF \/ Includes(lowerPrompt, "code") \/ Includes(lowerPrompt, "program")
     \/ Includes(lowerPrompt, "function")
  THEN "coding"
  ELSE IF \/ Includes(lowerPrompt, "explain") \/ Includes(lowerPrompt, "what is")
          \/ Includes(lowerPrompt, "how does")
  THEN "explanation"
  ELSE IF \/ Includes(lowerPrompt, "write") \/ Includes(lowerPrompt, "create")
          \/ Includes(lowerPrompt, "generate")
  THEN "creative"
  ELSE IF \/ Includes(lowerPrompt, "analyze") \/ Includes(lowerPrompt, "compare")
          \/ Includes(lowerPrompt, "evaluate")
  THEN "analysis"
  ELSE IF Includes(lowerPrompt, "translate") \/ Includes(lowerPrompt, "convert")
  THEN "transformation"
  ELSE "general"

\* a variant whose thresholds are inclusive
ComplexityInclusive(length, lowerPrompt) ==
  IF length >= 200 \/ Includes(lowerPrompt, "step") \/ Includes(lowerPrompt, "process")
  THEN "complex"
  ELSE IF length >= 100 THEN "medium"
  ELSE "simple"

\* let complexity = 'simple'; if (prompt.length > 200 || ...) ...
Complexity(length, lowerPrompt) ==
  IF length > 200 \/ Includes(lowerPrompt, "step") \/ Includes(lowerPrompt, "process")
  THEN "complex"
  ELSE IF length > 100 THEN "medium"
  ELSE "simple"

\* a variant that adds self-consistency to every complex prompt
TechniquesComplexOnly(type, complexity) ==
  <<"zero-shot", "role-definition">>
    \o (IF complexity = "complex" THEN <<"chain-of-thought">> ELSE <<>>)
    \o (IF type \in {"coding", "creative"} THEN <<"few-shot">> ELSE <<>>)
    \o (IF type \in {"analysis", "explanation"} THEN <<"meta-prompting">> ELSE <<>>)
    \o (IF complexity = "complex" THEN <<"self-consistency">> ELSE <<>>)

\* a variant that adds chain-of-thought for the complexity and again for the type
TechniquesPushedTwice(type, complexity) ==
  <<"zero-shot", "role-definition">>
    \o (IF complexity = "complex" THEN <<"chain-of-thought">> ELSE <<>>)
    \o (IF type \in {"coding", "creative"} THEN <<"few-shot">> ELSE <<>>)
    \o (IF type \in {"analysis", "explanation"}
        THEN <<"chain-of-thought", "meta-prompting">> ELSE <<>>)
    \o (IF complexity = "complex" /\ type \in {"analysis", "explanation"}
        THEN <<"self-consistency">> ELSE <<>>)

\* let techniques = ['zero-shot', 'role-definition']; ... techniques.push(...)
Techniques(type, complexity) ==
  <<"zero-shot", "role-definition">>
    \o (IF complexity = "complex" THEN <<"chain-of-thought">> ELSE <<>>)
    \o (IF type \in {"coding", "creative"} THEN <<"few-shot">> ELSE <<>>)
    \o (IF type \in {"analysis", "explanation"} THEN <<"meta-prompting">> ELSE <<>>)
    \o (IF complexity = "complex" /\ type \in {"analysis", "explanation"}
        THEN <<"self-consistency">> ELSE <<>>)

AnalyzePromptType(prompt) ==
  LET lowerPrompt == ToLowerCase(Flatten(prompt))
      type        == PromptType(lowerPrompt)
      complexity  == Complexity(TextLength(prompt), lowerPrompt)
  IN  [ type |-> type, complexity |-> complexity,
        techniques |-> Techniques(type, complexity) ]

(***************************************************************************)
(* createSmartOptimizationPrompt (part_000, 155-182).                      *)
(***************************************************************************)
\* a variant of the table whose key for self-consistency is misspelt
techniqueDescriptionsMisspelt ==
  [ t \in { "zero-shot", "few-shot", "chain-of-thought", "meta-prompting",
            "self_consistency", "role-definition" } |->
      CASE t = "zero-shot"        -> "Zero-shot Prompting: Direct instruction without examples"
        [] t = "few-shot"         -> "Few-shot Prompting: Include 2-3 relevant examples"
        [] t = "chain-of-thought" -> "Chain-of-Thought: Add step-by-step reasoning structure"
        [] t = "meta-prompting"   -> "Meta Prompting: Ask AI to think about its own process"
        [] t = "self_consistency" -> "Self-Consistency: Generate multiple perspectives"
        [] t = "role-definition"  -> "Role Definition: Establish clear AI expertise and context" ]

\* const techniqueDescriptions = { 'zero-shot': ..., ... }
techniqueDescriptions ==
  [ t \in { "zero-shot", "few-shot", "chain-of-thought", "meta-prompting",
            "self-consistency", "role-definition" } |->
      CASE t = "zero-shot"        -> "Zero-shot Prompting: Direct instruction without examples"
        [] t = "few-shot"         -> "Few-shot Prompting: Include 2-3 relevant examples"
        [] t = "chain-of-thought" -> "Chain-of-Thought: Add step-by-step reasoning structure"
        [] t = "meta-prompting"   -> "Meta Prompting: Ask AI to think about its own process"
        [] t = "self-consistency" -> "Self-Consistency: Generate multiple perspectives"
        [] t = "role-definition"  -> "Role Definition: Establish clear AI expertise and context" ]

\* techniqueDescriptions[t]: the property of that name, or undefined
DescriptionOf(t) ==
  IF t \in DOMAIN techniqueDescriptions THEN techniqueDescriptions[t] ELSE "undefined"

\* array.join(separator)
RECURSIVE Join(_, _)
Join(lines, separator) ==
  IF lines = <<>> THEN ""
  ELSE IF Len(lines) = 1 THEN lines[1]
  ELSE lines[1] \o separator \o Join(Tail(lines), separator)

\* analysis.techniques.map(t => techniqueDescriptions[t])
DescribedTechniques(techniques) ==
  [ k \in 1..Len(techniques) |-> DescriptionOf(techniques[k]) ]

\* the instruction built for the remote model
CreateSmartOptimizationPrompt(originalPrompt, analysis) ==
  LET appliedTechniques == Join(DescribedTechniques(analysis.techniques), "\n- ")
  IN  "You are an expert prompt engineer specializing in " \o analysis.type
        \o " tasks. Optimize this " \o analysis.complexity
        \o " prompt using these advanced techniques from the Prompt Engineering Guide:"
        \o "\n\n**Techniques to apply:**\n- " \o appliedTechniques
        \o "\n\n**Original prompt:**\n" \o Flatten(originalPrompt)
        \o "\n\n**Optimization strategy:**\n"
        \o "1. **Analyze**: Identify the core intent and potential weaknesses\n"
        \o "2. **Enhance**: Apply the selected techniques appropriately\n"
        \o "3. **Structure**: Improve clarity, specificity, and logical flow\n"
        \o "4. **Validate**: Ensure the prompt will produce high-quality responses\n\n"
        \o "**Return ONLY the optimized prompt text, no explanations, no JSON, no quotes:**"

(***************************************************************************)
(* selectOptimalTechniques (extension.ts, 470-682).                        *)
(***************************************************************************)
\* the name and the description of the entries of allTechniques
allTechniques ==
  << [name |-> "Zero-shot Prompting",
      description |-> "Provide clear, direct instructions without examples"],
     [name |-> "Few-shot Prompting",
      description |-> "Include 2-3 examples to guide the model"],
     [name |-> "Chain-of-Thought Prompting",
      description |-> "Break complex tasks into step-by-step reasoning"],
     [name |-> "Meta Prompting",
      description |-> "Ask the model to think about how to approach the task"],
     [name |-> "Self-Consistency",
      description |-> "Generate multiple responses and select the best one"],
     [name |-> "Generate Knowledge Prompting",
      description |-> "Generate relevant knowledge before answering"],
     [name |-> "Prompt Chaining",
      description |-> "Break complex tasks into smaller, connected prompts"],
     [name |-> "Tree of Thoughts",
      description |-> "Explore multiple reasoning paths and select the best"],
     [name |-> "Retrieval Augmented Generation",
      description |-> "Use external knowledge sources to enhance responses"],
     [name |-> "Automatic Reasoning and Tool-use",
      description |-> "Enable the model to use tools and reason automatically"],
     [name |-> "Active-Prompt",
      description |-> "Dynamically select the most effective prompt examples"],
     [name |-> "Directional Stimulus Prompting",
      description |-> "Guide the model's attention to specific aspects"],
     [name |-> "Program-Aided Language Models",
      description |-> "Use programming constructs to structure reasoning"],
     [name |-> "ReAct",
      description |-> "Combine reasoning and acting in an interleaved manner"],
     [name |-> "Reflexion",
      description |-> "Enable the model to reflect on and improve its responses"],
     [name |-> "Multimodal CoT",
      description |-> "Apply chain-of-thought reasoning to multimodal inputs"],
     [name |-> "Graph Prompting",
      description |-> "Structure information as graphs for better reasoning"] >>

\* allTechniques[k] of the source, whose indices start at 0
CatalogAt(k) == allTechniques[k + 1]

RoleDefinition ==
  [name |-> "Role Definition",
   description |-> "Define the AI's role and expertise clearly"]

ContextSetting ==
  [name |-> "Context Setting",
   description |-> "Provide relevant background and context"]

OutputFormatting ==
  [name |-> "Output Formatting",
   description |-> "Specify desired output format and structure"]

ConstraintSpecification ==
  [name |-> "Constraint Specification",
   description |-> "Add clear constraints and requirements"]

\* \w of a regular expression, on a lower-cased text
WordChars ==
  { "a", "b", "c", "d", "e", "f", "g", "h", "i", "j", "k", "l", "m", "n", "o",
    "p", "q", "r", "s", "t", "u", "v", "w", "x", "y", "z",
    "0", "1", "2", "3", "4", "5", "6", "7", "8", "9", "_" }

IsWordChar(str, k) == k \in 1..Len(str) /\ SubSeq(str, k, k) \in WordChars

\* \b before the character at p: a word character on one side only
WordBoundary(str, p) == IsWordChar(str, p - 1) # IsWordChar(str, p)

\* /\b(w1|w2|...)\b/i.test(originalPrompt), on the lower-cased text
TestWords(lower, words) ==
  \E w \in words :
    \E p \in 1..(Len(lower) - Len(w) + 1) :
      /\ SubSeq(lower, p, p + Len(w) - 1) = w
      /\ WordBoundary(lower, p)
      /\ WordBoundary(lower, p + Len(w))

CodeKeywords ==
  { "code", "function", "class", "method", "algorithm", "program", "script",
    "api", "database", "sql", "html", "css", "javascript", "python", "java",
    "c++", "react", "node" }

VisualKeywords ==
  { "image", "picture", "photo", "visual", "draw", "design", "chart", "graph",
    "diagram" }

AnalysisKeywords ==
  { "analyze", "compare", "evaluate", "assess", "review", "examine", "study" }

CreativeKeywords ==
  { "create", "write", "generate", "design", "invent", "imagine", "brainstorm" }

\* the pushes onto selected, in the order of the source
Selected(originalPrompt) ==
  LET text                == Flatten(originalPrompt)
      promptLower         == ToLowerCase(text)
      promptLength        == Len(text)
      hasQuestion         == Includes(text, "?")
      hasCodeKeywords     == TestWords(promptLower, CodeKeywords)
      hasVisualKeywords   == TestWords(promptLower, VisualKeywords)
      hasAnalysisKeywords == TestWords(promptLower, AnalysisKeywords)
      hasCreativeKeywords == TestWords(promptLower, CreativeKeywords)
      Push(cond, technique) == IF cond THEN <<technique>> ELSE <<>>
  IN  <<CatalogAt(0)>>
        \o Push(~Includes(promptLower, "you are") /\ ~Includes(promptLower, "act as"),
                RoleDefinition)
        \o Push(promptLength < 30, ContextSetting)
        \o Push(promptLength > 50 \/ hasQuestion \/ hasAnalysisKeywords, CatalogAt(2))
        \o Push(hasAnalysisKeywords \/ Includes(promptLower, "example")
                  \/ Includes(promptLower, "similar"), CatalogAt(1))
        \o Push(promptLength > 60
                  /\ (hasAnalysisKeywords \/ Includes(promptLower, "approach")),
                CatalogAt(3))
        \o Push(hasCodeKeywords, CatalogAt(12))
        \o Push(hasVisualKeywords, CatalogAt(15))
        \o Push(Includes(promptLower, "research") \/ Includes(promptLower, "find")
                  \/ Includes(promptLower, "lookup"), CatalogAt(5))
        \o Push(promptLength > 80
                  /\ (hasAnalysisKeywords \/ Includes(promptLower, "best")
                        \/ Includes(promptLower, "compare")),
                CatalogAt(4))
        \o Push(Includes(promptLower, "interact") \/ Includes(promptLower, "dynamic")
                  \/ hasCodeKeywords, CatalogAt(13))
        \o Push(hasCreativeKeywords, OutputFormatting)
        \o Push(promptLength > 100, ConstraintSpecification)

\* self.findIndex(t => t.name === name), with indices from 1
FindIndex(self, name) ==
  IF \E k \in 1..Len(self) : self[k].name = name
  THEN CHOOSE k \in 1..Len(self) :
         /\ self[k].name = name
         /\ \A j \in 1..(k - 1) : self[j].name # name
  ELSE 0

\* array.filter on the indices: the entries whose index is in keep, in order
RECURSIVE FilterAt(_, _, _)
FilterAt(self, keep, k) ==
  IF k > Len(self) THEN <<>>
  ELSE (IF k \in keep THEN <<self[k]>> ELSE <<>>) \o FilterAt(self, keep, k + 1)

\* selected.filter((technique, index, self) => index === self.findIndex(...))
UniqueSelected(selected) ==
  FilterAt(selected,
           {k \in 1..Len(selected) : FindIndex(selected, selected[k].name) = k}, 1)

\* array.slice(0, end)
Slice(array, end) ==
  LET last == IF end < 0 THEN (IF Len(array) + end < 0 THEN 0 ELSE Len(array) + end)
              ELSE IF end > Len(array) THEN Len(array) ELSE end
  IN  SubSeq(array, 1, last)

\* Math.min
Min(a, b) == IF a < b THEN a ELSE b

\* the names that the conservative level keeps
BasicNames == {"Zero-shot Prompting", "Role Definition", "Context Setting"}

\* a variant whose conservative level cuts without filtering
ApplyLevelUnfiltered(uniqueSelected, optimizationLevel, maxTechniques) ==
  IF optimizationLevel = "conservative"
  THEN Slice(uniqueSelected, 2)
  ELSE IF optimizationLevel = "aggressive"
  THEN Slice(uniqueSelected, maxTechniques)
  ELSE Slice(uniqueSelected, Min(maxTechniques, 4))

\* a variant whose smart level has no limit of its own
ApplyLevelSmartUncapped(uniqueSelected, optimizationLevel, maxTechniques) ==
  IF optimizationLevel = "conservative"
  THEN Slice(FilterAt(uniqueSelected,
                      {k \in 1..Len(uniqueSelected) : uniqueSelected[k].name \in BasicNames},
                      1), 2)
  ELSE Slice(uniqueSelected, maxTechniques)

\* if (optimizationLevel === 'conservative') ... else if ... else ...
ApplyLevel(uniqueSelected, optimizationLevel, maxTechniques) ==
  IF optimizationLevel = "conservative"
  THEN Slice(FilterAt(uniqueSelected,
                      {k \in 1..Len(uniqueSelected) : uniqueSelected[k].name \in BasicNames},
                      1), 2)
  ELSE IF optimizationLevel = "aggressive"
  THEN Slice(uniqueSelected, maxTechniques)
  ELSE Slice(uniqueSelected, Min(maxTechniques, 4))

SelectOptimalTechniques(originalPrompt, optimizationLevel, maxTechniques) ==
  ApplyLevel(UniqueSelected(Selected(originalPrompt)), optimizationLevel, maxTechniques)

\* selectedTechniques.map(tech => `- ${tech.name}: ${tech.description}`)
TechniqueLines(selectedTechniques) ==
  [ k \in 1..Len(selectedTechniques) |->
      "- " \o selectedTechniques[k].name \o ": " \o selectedTechniques[k].description ]

\* createOptimizationPrompt (extension.ts, 457-468)
CreateOptimizationPrompt(originalPrompt, optimizationLevel, maxTechniques) ==
  LET selectedTechniques ==
        SelectOptimalTechniques(originalPrompt, optimizationLevel, maxTechniques)
  IN  "You are an expert prompt engineer. Apply these proven techniques to optimize the prompt:\n\n"
        \o Join(TechniqueLines(selectedTechniques), "\n")
        \o "\n\nOriginal prompt: \"" \o Flatten(originalPrompt) \o "\"\n\n"
        \o "Apply the techniques above to create a more effective prompt. Return ONLY the optimized prompt text, no explanations or JSON."

(***************************************************************************)
(* The helper functions called on their own, on each of a set of texts.    *)
(***************************************************************************)
\* the phrases that the texts start with
Phrases ==
  { <<>>, <<" ">>, <<"hi">>,
    <<"Write", " ", "a", " ", "function", " ", "to", " ", "reverse", " ",
      "a", " ", "string">>,
    <<"Generate", " ", "a", " ", "poem">>,
    <<"EXPLAIN", " ", "gravity">>,
    <<"What", " ", "is", " ", "gravity">>,
    <<"how", " ", "does", " ", "it", " ", "work">>,
    <<"Compare", " ", "cats", " ", "and", " ", "dogs">>,
    <<"Evaluate", " ", "and", " ", "explain">>,
    <<"Translate", " ", "this">>,
    <<"convert", " ", "and", " ", "create">>,
    <<"Decode", " ", "this">>,
    <<"List", " ", "each", " ", "Step">>,
    <<"the", " ", "PROCESS">> }

\* the numbers of characters that the phrases are filled up to
FillLengths == {0, 4, 5, 29, 30, 100, 101, 200, 201, 500, 501}

\* text, followed by a run of the letter x when it has fewer than n characters
FillTo(text, n) ==
  IF TextLength(text) >= n THEN text
  ELSE text \o << Repeat("x", n - TextLength(text)) >>

HelperTexts == { FillTo(phrase, n) : phrase \in Phrases, n \in FillLengths }

\* activate(), and a text that the helper functions are called on
InitHelpers ==
  /\ revision \in Revisions
  /\ config \in {c \in Configs : c.apiKey = "sk-key" /\ c.autoCopy
                                  /\ c.showNotifications /\ c.model = "undefined"}
  /\ history = <<>>
  /\ clipboard = <<"old">>
  /\ inv = [i \in Invs |-> Idle]
  /\ clearDialog = FALSE
  /\ now = 0
  /\ remote = "answers"
  /\ document = <<>>
  /\ call \in {[fn |-> "none", arg |-> text, ret |-> <<>>] : text \in HelperTexts}

\* the editor asks for the code actions of the selection call.arg
CallProvideCodeActions ==
  /\ call' = [ fn  |-> "provideCodeActions", arg |-> call.arg,
               ret |-> ProvideCodeActions(revision, call.arg) ]
  /\ UNCHANGED <<revision, config, history, clipboard, inv, clearDialog, now,
                 remote, document>>

\* optimizePrompt calls analyzePromptType on the text call.arg
CallAnalyzePromptType ==
  /\ revision = "part_000"
  /\ call' = [ fn  |-> "analyzePromptType", arg |-> call.arg,
               ret |-> AnalyzePromptType(call.arg) ]
  /\ UNCHANGED <<revision, config, history, clipboard, inv, clearDialog, now,
                 remote, document>>

NextHelpers ==
  \/ CallProvideCodeActions
  \/ CallAnalyzePromptType

SpecHelpers == InitHelpers /\ [][NextHelpers]_vars

(***************************************************************************)
(* The instruction builders called on each of a set of texts, under each   *)
(* optimization level and maximum number of techniques.                    *)
(***************************************************************************)
\* config.get<string>('optimizationLevel', 'smart')
Levels == {"undefined", "conservative", "smart", "aggressive"}

ConfiguredLevel(cfg) ==
  IF cfg.optimizationLevel = "undefined" THEN "smart" ELSE cfg.optimizationLevel

\* promptious.maxTechniques: Maximum techniques to apply (1-8)
MaxTechniquesValues == 1..8

\* the settings, with the two that createOptimizationPrompt receives
TechniqueConfigs ==
  { [ apiKey |-> "sk-key", autoCopy |-> TRUE, showNotifications |-> TRUE,
      model |-> "undefined", optimizationLevel |-> level, maxTechniques |-> max ] :
    level \in Levels, max \in MaxTechniquesValues }

\* the phrases that the texts start with
TechniquePhrases ==
  { <<"hi">>,
    <<"Decode", " ", "this", " ", "text">>,
    <<"You", " ", "are", " ", "a", " ", "poet", ",", " ", "sing">>,
    <<"Act", " ", "as", " ", "a", " ", "guide", " ", "and", " ", "explain", " ", "it">>,
    <<"Is", " ", "it", " ", "so", "?", " ", "yes">>,
    <<"you", " ", "are", " ", "sure", "?", " ", "yes">>,
    <<"Analyze", " ", "the", " ", "process", " ", "data">>,
    <<"give", " ", "an", " ", "example", " ", "here">>,
    <<"a", " ", "similar", " ", "approach", " ", "works">>,
    <<"use", " ", "c++", " ", "here">>,
    <<"the", " ", "encoder", " ", "runs">>,
    <<"draw", " ", "a", " ", "chart", " ", "of", " ", "sales">>,
    <<"research", " ", "the", " ", "best", " ", "option">>,
    <<"find", " ", "and", " ", "compare", " ", "the", " ", "two">>,
    <<"make", " ", "it", " ", "interact", " ", "and", " ", "dynamic">>,
    <<"design", " ", "and", " ", "create", " ", "a", " ", "logo">>,
    <<"Write", " ", "a", " ", "function", " ", "to", " ", "reverse", " ",
      "a", " ", "string">>,
    <<"Compare", " ", "the", " ", "code", " ", "to", " ", "find", " ", "a", " ",
      "similar", " ", "design", ",", " ", "then", " ", "write", " ", "it">> }

\* the numbers of characters that the phrases are filled up to
TechniqueFillLengths == {0, 29, 30, 50, 51, 60, 61, 80, 81, 100, 101, 201}

TechniqueTexts ==
  { FillTo(phrase, n) : phrase \in TechniquePhrases, n \in TechniqueFillLengths }

\* activate(), and a text that the instruction is built for
InitTechniques ==
  /\ revision \in Revisions
  /\ config \in TechniqueConfigs
  /\ history = <<>>
  /\ clipboard = <<"old">>
  /\ inv = [i \in Invs |-> Idle]
  /\ clearDialog = FALSE
  /\ now = 0
  /\ remote = "answers"
  /\ document = <<>>
  /\ call \in {[fn |-> "none", arg |-> text, ret |-> <<>>] : text \in TechniqueTexts}

\* optimizeText calls createOptimizationPrompt on the text call.arg
\* (extension.ts, 235-236 and 261)
CallCreateOptimizationPrompt ==
  /\ revision = "extension"
  /\ call.fn = "none"
  /\ LET optimizationLevel == ConfiguredLevel(config)
         maxTechniques     == config.maxTechniques
     IN  call' = [ fn  |-> "createOptimizationPrompt", arg |-> call.arg,
                   ret |-> [ techniques |->
                               SelectOptimalTechniques(call.arg, optimizationLevel,
                                                       maxTechniques),
                             prompt |->
                               CreateOptimizationPrompt(call.arg, optimizationLevel,
                                                        maxTechniques) ] ]
  /\ UNCHANGED <<revision, config, history, clipboard, inv, clearDialog, now,
                 remote, document>>

\* optimizePrompt calls createSmartOptimizationPrompt on the text and the
\* analysis that analyzePromptType returned (part_000, 214-215)
CallCreateSmartOptimizationPrompt ==
  /\ revision = "part_000"
  /\ call.fn = "analyzePromptType"
  /\ call' = [ fn  |-> "createSmartOptimizationPrompt", arg |-> call.arg,
               ret |-> [ analysis |-> call.ret,
                         lines    |-> DescribedTechniques(call.ret.techniques),
                         prompt   |-> CreateSmartOptimizationPrompt(call.arg, call.ret) ] ]
  /\ UNCHANGED <<revision, config, history, clipboard, inv, clearDialog, now,
                 remote, document>>

NextTechniques ==
  \/ CallCreateOptimizationPrompt
  \/ call.fn = "none" /\ CallAnalyzePromptType
  \/ CallCreateSmartOptimizationPrompt

SpecTechniques == InitTechniques /\ [][NextTechniques]_vars

\* invocations are numbered in the order in which they start
Starts(i) == \A j \in 1..(i - 1) : inv[j].pc # "idle"

\* the steps of extension.ts: the invocations of slots on texts, whose
\* requests end in an outcome of axios, and the clear command
\* the slots a new invocation can take
Free(slots) == {i \in slots : Starts(i) /\ inv[i].pc = "idle"}

\* editor.document.getText(editor.selection): without an editor nothing is
\* selected
Selections(editor, texts) == IF editor THEN texts ELSE { <<>> }

\* what the user can type: nothing where no input box opens
Typing(editor, selected, texts) ==
  IF editor /\ NotBlank(selected) THEN { {} } ELSE Typed(texts)

ExtensionStep(slots, axios, texts) ==
  \/ \E i \in Free(slots), editor \in BOOLEAN :
       \E selected \in Selections(editor, texts) :
         \E typed \in Typing(editor, selected, texts) :
           HandleOptimizePrompt(i, editor, selected, typed)
  \/ \E i \in Free(slots), editor \in BOOLEAN :
       \E selected \in Selections(editor, texts) :
         \E typed \in Typing(editor, selected, texts) :
           HandleOptimizeSelection(i, editor, selected, typed)
  \/ \E i \in slots, o \in axios, date \in Dates : AxiosSettles(i, o, date)
  \/ \E i \in slots, ok \in BOOLEAN : ClipboardSettles(i, ok)
  \/ ClearCommand
  \/ \E answer \in ClearAnswers : ClearAnswer(answer)

\* the steps of part_000: the invocations of slots on texts, whose requests
\* end in an outcome of fetchs
FetchStep(slots, fetchs, texts) ==
  \/ \E i \in Free(slots), typed \in Typed(texts) :
       OptimizePromptCommand(i, typed)
  \/ \E i \in Free(slots), editor \in BOOLEAN :
       \E selected \in Selections(editor, texts) :
         OptimizeSelectionCommand(i, editor, selected)
  \/ \E i \in slots, o \in fetchs : FetchSettles(i, o)
  \/ \E i \in slots, ok \in BOOLEAN : FetchClipboardSettles(i, ok)

Step(slots, axios, fetchs, texts) ==
  \/ ExtensionStep(slots, axios, texts)
  \/ FetchStep(slots, fetchs, texts)

\* overlapping invocations, each ending in one of a few outcomes
Next == Step(Invs, CoreAxiosOutcomes, CoreFetchOutcomes, Prompts)

Spec == InitCore /\ [][Next]_vars

\* one invocation on any text, ending in any outcome
NextOne == Step({1}, AxiosOutcomes, FetchOutcomes, EntryTexts)

SpecOne == Init /\ [][NextOne]_vars

\* overlapping invocations of extension.ts on a history that is nearly full
NextFull == ExtensionStep(Invs, CoreAxiosOutcomes, Prompts)

SpecFull == InitFull /\ [][NextFull]_vars

\* overlapping invocations of extension.ts, the clear command and the
\* history command
NextHistory ==
  \/ ExtensionStep(Invs, CoreAxiosOutcomes, Prompts)
  \/ ShowHistoryCommand

SpecHistory == InitHistory /\ [][NextHistory]_vars

\* what the event loop guarantees: the promise of axios.post settles (the
\* timer of the request ends it at the latest), the promise of
\* clipboard.writeText settles, and the promise of fetch settles when the
\* remote service answers; nothing ends a fetch that is never answered
Fairness ==
  \A i \in Invs :
    /\ WF_vars(\E o \in CoreAxiosOutcomes, date \in Dates : AxiosSettles(i, o, date))
    /\ WF_vars(\E ok \in BOOLEAN : ClipboardSettles(i, ok))
    /\ WF_vars(remote = "answers" /\ \E o \in CoreFetchOutcomes : FetchSettles(i, o))
    /\ WF_vars(\E ok \in BOOLEAN : FetchClipboardSettles(i, ok))

\* overlapping invocations under these guarantees
SpecLive == InitLive /\ [][Next]_vars /\ Fairness

(***************************************************************************)
(* Properties.                                                             *)
(***************************************************************************)
Extension == revision = "extension"

\* the invocation received a completion and went on to interpret it
Replied(i) == inv[i].pc \in {"clipboard", "done"} /\ inv[i].got.kind = "ok"

\* the members of the reply of invocation i, read as a JSON object
ReplyObject(i) == JSONParse(inv[i].got.content)

ReplyField(i, key) == Field(ReplyObject(i).members, key)

\* the newest record of the history
Newest == history[Len(history)]

\* C1: the history never holds more than MAX_HISTORY_SIZE (100) records;
\* every push puts the record of the invocation last and keeps the records
\* before it in their order, dropping exactly the oldest one when the
\* history already held MAX_HISTORY_SIZE records.
C1_LedgerBound ==
  /\ [](Len(history) <= MAX_HISTORY_SIZE)
  /\ [][\A i \in Invs :
          inv'[i].appended = inv[i].appended + 1 =>
            /\ history' # <<>>
            /\ history'[Len(history')].original = inv'[i].text
            /\ history' =
                 IF Len(history) = MAX_HISTORY_SIZE
                 THEN Append(Tail(history), history'[Len(history')])
                 ELSE Append(history, history'[Len(history')])]_vars

\* a push onto the full history has dropped the oldest record
C1_Evicted ==
  /\ Len(history) = MAX_HISTORY_SIZE
  /\ history[1] = PastRecord(2)
  /\ history[MAX_HISTORY_SIZE - 2] = PastRecord(MAX_HISTORY_SIZE - 1)
  /\ \E i \in Invs : inv[i].appended = 1 /\ Newest.original = inv[i].text

\* C2: an invocation of optimizeText that has ended either pushed one
\* record and showed no error, or pushed nothing and showed an error.
C2_NoPartialFailure ==
  Extension =>
    \A i \in Invs :
      inv[i].pc = "done" =>
        \/ inv[i].appended = 1 /\ inv[i].error = NoMessage
        \/ inv[i].appended = 0 /\ inv[i].error # NoMessage

\* the messages shown for a failed request
RequestErrorMessages ==
  {ErrorMessage(o) : o \in {x \in AxiosOutcomes : x.kind # "ok"}}
  \cup {FetchErrorMessage(FetchThrown(o)) : o \in {x \in FetchOutcomes : x.kind # "ok"}}

\* C3: with the API key unset or empty no invocation sends a request: it
\* ends showing the missing-key message, which no failed request shows, and
\* the history and the clipboard stay as they were.
C3_MissingKeyNoRequest ==
  config.apiKey \in {"undefined", ""} =>
    /\ history = <<>>
    /\ clipboard = <<"old">>
    /\ \A i \in Invs :
         /\ inv[i].requests = 0
         /\ inv[i].pc \in {"idle", "done"}
         /\ inv[i].pc = "done" =>
              /\ inv[i].error = IF Extension THEN MissingKeyText ELSE FetchMissingKeyText
              /\ inv[i].error \notin RequestErrorMessages
              /\ inv[i].info = NoMessage

\* an invocation ended on the missing key
C3_MissingKeyShown ==
  /\ config.apiKey = ""
  /\ \E i \in Invs :
       inv[i].pc = "done" /\ inv[i].error \in {MissingKeyText, FetchMissingKeyText}

\* C4: an invocation that passed the key check has sent exactly one
\* request, and after a failed request it has ended showing an error with
\* that one request sent.
C4_OneRequest ==
  \A i \in Invs :
    /\ inv[i].requests <= 1
    /\ inv[i].pc \in {"request", "clipboard"} => inv[i].requests = 1
    /\ inv[i].pc = "done" /\ config.apiKey = "sk-key" => inv[i].requests = 1
    /\ inv[i].got.kind = "error" =>
         inv[i].pc = "done" /\ inv[i].requests = 1 /\ inv[i].error # NoMessage

\* a request failed and the invocation ended
C4_FailedOnce ==
  \E i \in Invs :
    inv[i].got.kind = "error" /\ inv[i].pc = "done" /\ inv[i].requests = 1

\* C5: a 401 answer shows the authentication-failed message, a 429 answer
\* the rate-limited message, a 402 answer the payment message, and a timeout
\* or an aborted connection the request-timed-out message.
C5_ErrorMapping ==
  \A i \in Invs :
    inv[i].pc = "done" /\ inv[i].got.kind = "error" =>
      /\ inv[i].got.status = 401 =>
           inv[i].error \in { "Failed to optimize prompt. " \o AuthFailedText,
                              "Error optimizing prompt: " \o FetchInvalidKeyText }
      /\ inv[i].got.status = 429 =>
           inv[i].error \in { "Failed to optimize prompt. " \o RateLimitedText,
                              "Error optimizing prompt: " \o FetchRateLimitedText }
      /\ inv[i].got.status = 402 =>
           inv[i].error = "Failed to optimize prompt. " \o PaymentText
      /\ inv[i].got.code \in {"ECONNABORTED", "ETIMEDOUT"} =>
           inv[i].error = "Failed to optimize prompt. " \o TimedOutText

\* C6: the clear command leaves the history as it is when it opens its
\* warning and when the answer is "No" or the warning is dismissed; on the
\* answer "Yes" it empties the history.
C6_ClearOnlyOnYes ==
  [][ /\ (~clearDialog /\ clearDialog') => history' = history
      /\ \A answer \in ClearAnswers :
           ClearAnswer(answer) =>
             IF answer = "Yes" THEN history' = <<>> ELSE history' = history ]_vars

\* a record was pushed and the history was emptied afterwards
C6_Cleared ==
  /\ ~clearDialog
  /\ history = <<>>
  /\ \E i \in Invs : inv[i].appended = 1

\* C7: when the reply is a JSON object whose optimized_prompt is the string
\* X, the text presented and the text of the record are X.
C7_JsonOptimizedText ==
  Extension =>
    \A i \in Invs :
      ( /\ Replied(i)
        /\ ReplyObject(i).ok
        /\ ReplyField(i, "\"optimized_prompt\"") \in StrLits ) =>
        /\ inv[i].result = StrContent(ReplyField(i, "\"optimized_prompt\""))
        /\ history # <<>> =>
             Newest.optimized = StrContent(ReplyField(i, "\"optimized_prompt\""))

\* C8 as stated: when the reply is not JSON, the optimized text presented
\* is the raw reply, character for character.
C8_RawVerbatim ==
  \A i \in Invs :
    Replied(i) /\ ~ReplyObject(i).ok /\ inv[i].result # <<>> =>
      inv[i].result = inv[i].got.content

\* C8: when the reply is not JSON, the optimized text is the raw reply
\* without its leading and trailing white space, and the record of the
\* invocation holds that text and no techniques.
C8_RawTrimmed ==
  \A i \in Invs :
    Replied(i) /\ ~ReplyObject(i).ok =>
      /\ inv[i].result = Trim(inv[i].got.content)
      /\ inv[i].appended = 1 /\ history # <<>> =>
           Newest.optimized = Trim(inv[i].got.content) /\ Newest.techniques = <<>>

\* a reply wrapped in white space was presented without it
C8_TrimmedReply ==
  \E i \in Invs :
    /\ inv[i].pc = "done"
    /\ inv[i].got.content = <<" ", "X", "\n">>
    /\ inv[i].result = <<"X">>
    /\ inv[i].error = NoMessage

\* C9: when the reply looks like the envelope and JSON.parse fails on it,
\* the invocation ends with the record pushed, the trimmed reply as the
\* optimized text, and no error message shown.
C9_ParseFailureSilent ==
  Extension =>
    \A i \in Invs :
      ( /\ inv[i].pc = "done"
        /\ inv[i].got.kind = "ok"
        /\ StartsWithBrace(Trim(inv[i].got.content))
        /\ IncludesKey(Trim(inv[i].got.content))
        /\ ~ReplyObject(i).ok ) =>
        /\ inv[i].error = NoMessage
        /\ inv[i].appended = 1
        /\ inv[i].result = Trim(inv[i].got.content)

\* the technique names of a JSON array of technique objects
TechniqueNames(v) == IF v = "[{\"name\":\"CoT\"}]" THEN <<"CoT">> ELSE <<>>

\* C10: when the reply is a JSON object that holds the optimized text, the
\* record of the invocation holds the applied techniques and the
\* improvement score of the reply.
C10_StructuredFields ==
  Extension =>
    \A i \in Invs :
      ( /\ Replied(i)
        /\ ReplyObject(i).ok
        /\ ReplyField(i, "\"optimized_prompt\"") \notin Falsy
        /\ inv[i].appended = 1
        /\ history # <<>> ) =>
        /\ ReplyField(i, "\"improvement_score\"") # "undefined" =>
             Newest.score = ReplyField(i, "\"improvement_score\"")
        /\ ReplyField(i, "\"applied_techniques\"") # "undefined" =>
             Newest.techniques = TechniqueNames(ReplyField(i, "\"applied_techniques\""))

\* C11: no invocation reaches the classifier, the instruction builder and
\* the remote call with an empty or blank text: an invocation that has sent
\* its request holds a text that is not blank.
C11_NoBlankText ==
  \A i \in Invs : inv[i].requests > 0 => NotBlank(inv[i].text)

\* C12: an invocation that has sent its request eventually ends, and when
\* the remote service never answers it ends showing the request-timed-out
\* message.
C12_Finishes ==
  \A i \in Invs :
    /\ (inv[i].pc = "request") ~> (inv[i].pc = "done")
    /\ (inv[i].pc = "request" /\ remote = "silent") ~>
         ( /\ inv[i].pc = "done"
           /\ inv[i].error = "Failed to optimize prompt. " \o TimedOutText )

\* C13: with several invocations pending and settling in any order, an
\* invocation pushes at most one record, and exactly one when it ends without
\* an error; the push is one step of one invocation, it adds one record that
\* holds the text of that invocation and the optimized text read from the
\* reply of that invocation, and no state between two steps holds more than
\* MAX_HISTORY_SIZE records.
C13_OwnRecord ==
  /\ [](\A i \in Invs :
         /\ inv[i].appended <= 1
         /\ Extension /\ inv[i].pc = "done" /\ inv[i].error = NoMessage =>
              inv[i].appended = 1)
  /\ [](Len(history) <= MAX_HISTORY_SIZE)
  /\ [][\A i \in Invs :
          inv'[i].appended # inv[i].appended =>
            /\ inv[i].pc = "request"
            /\ inv'[i].appended = inv[i].appended + 1
            /\ \A j \in Invs \ {i} : inv'[j] = inv[j]
            /\ Len(history') =
                 IF Len(history) < MAX_HISTORY_SIZE
                 THEN Len(history) + 1 ELSE MAX_HISTORY_SIZE
            /\ history'[Len(history')].original = inv[i].text
            /\ history'[Len(history')].optimized =
                 InterpretReply(inv'[i].got.content)]_vars
  /\ [][Len(history') > Len(history) =>
          \E i \in Invs : inv'[i].appended = inv[i].appended + 1]_vars

\* two invocations were pending together and the one started second pushed
\* first: each of the two newest records holds the texts of its invocation
C13_Interleaved ==
  /\ Len(history) = MAX_HISTORY_SIZE
  /\ inv[1].appended = 1 /\ inv[2].appended = 1
  /\ inv[1].text # inv[2].text
  /\ InterpretReply(inv[1].got.content) # InterpretReply(inv[2].got.content)
  /\ history[MAX_HISTORY_SIZE - 1].original = inv[2].text
  /\ history[MAX_HISTORY_SIZE - 1].optimized = InterpretReply(inv[2].got.content)
  /\ history[MAX_HISTORY_SIZE].original = inv[1].text
  /\ history[MAX_HISTORY_SIZE].optimized = InterpretReply(inv[1].got.content)

\* C14: the timestamps of the records never decrease along the history, and
\* the document that the history command opens lists the records of the
\* history in the order of the history, the k-th under the heading
\* "Optimization k".
C14_Chronological ==
  /\ [](\A k \in 1..(Len(history) - 1) :
         history[k].timestamp <= history[k + 1].timestamp)
  /\ [][document' # document =>
          /\ Len(document') = Len(history)
          /\ \A k \in 1..Len(history) :
               /\ document'[k].heading = "## Optimization " \o ToString(k)
               /\ document'[k].date = ToLocaleString(history[k].timestamp)
               /\ document'[k].original = history[k].original
               /\ document'[k].optimized = history[k].optimized]_vars

\* the document lists two records of overlapping invocations: the one pushed
\* first, by the invocation started second, at the earlier date
C14_Listed ==
  /\ Len(document) = 2
  /\ document[1].heading = "## Optimization 1"
  /\ document[2].heading = "## Optimization 2"
  /\ document[1].date = ToLocaleString(0)
  /\ document[2].date = ToLocaleString(1)
  /\ document[1].original = inv[2].text
  /\ document[2].original = inv[1].text
  /\ inv[1].text # inv[2].text

\* C15: the request of an invocation names the model chosen in the
\* settings, and gpt-3.5-turbo when no model is chosen.
C15_ConfiguredModel ==
  \A i \in Invs :
    inv[i].requests > 0 =>
      inv[i].model =
        IF config.model = "undefined" THEN "gpt-3.5-turbo" ELSE config.model

\* the reply of invocation i is the JSON envelope: an object with the member
\* optimized_prompt
Envelope(i) ==
  ReplyObject(i).ok /\ ReplyField(i, "\"optimized_prompt\"") # "undefined"

\* C16: the clipboard holds another text than at the start only when auto
\* copy is on and an invocation ended without an error, and then it holds the
\* optimized text of such an invocation, which is not the JSON envelope of
\* its reply; an invocation that ended without an error with auto copy on
\* has written the clipboard.
C16_ClipboardOptimizedOnly ==
  Extension =>
    /\ clipboard # <<"old">> =>
         /\ config.autoCopy
         /\ \E i \in Invs :
              /\ inv[i].pc = "done" /\ inv[i].error = NoMessage
              /\ clipboard = inv[i].result
              /\ clipboard = InterpretReply(inv[i].got.content)
              /\ ~(Envelope(i) /\ clipboard = Trim(inv[i].got.content))
    /\ \A i \in Invs :
         inv[i].pc = "done" /\ inv[i].error = NoMessage /\ config.autoCopy =>
           clipboard # <<"old">>

\* C17: the code action "Optimize with Promptious" is returned for every
\* selection that is not blank, whatever its length, and for no blank one.
C17_AnyNonBlankSelection ==
  call.fn = "provideCodeActions" =>
    IF NotBlank(call.arg)
    THEN call.ret = <<"Optimize with Promptious">>
    ELSE call.ret = <<>>

\* C18: the commands promptious.optimizePrompt, promptious.optimizeSelection,
\* promptious.showHistory, promptious.configureSettings and
\* promptious.clearHistory are registered in every state after activation.
C18_CommandsRegistered ==
  { "promptious.optimizePrompt", "promptious.optimizeSelection",
    "promptious.showHistory", "promptious.configureSettings",
    "promptious.clearHistory" } \subseteq RegisteredCommands(revision)

\* the part of the text that decides the complexity: its length and whether
\* its lower-case form contains "step" or "process"
Structural(text) ==
  \E key \in {"step", "process"} : Includes(ToLowerCase(Flatten(text)), key)

\* C19: the complexity that analyzePromptType returns is "complex" when the
\* text has more than 200 characters or contains "step" or "process" in any
\* case, otherwise "medium" when it has more than 100 characters, otherwise
\* "simple"; so 200 characters without such a word are "medium", 100 are
\* "simple", and fewer than 30 are "simple".
C19_Complexity ==
  call.fn = "analyzePromptType" =>
    LET n == TextLength(call.arg)
    IN  /\ call.ret.complexity =
             IF n >= 201 \/ Structural(call.arg) THEN "complex"
             ELSE IF n >= 101 THEN "medium"
             ELSE "simple"
        /\ Structural(call.arg) => call.ret.complexity = "complex"
        /\ n = 200 /\ ~Structural(call.arg) => call.ret.complexity = "medium"
        /\ n = 100 /\ ~Structural(call.arg) => call.ret.complexity = "simple"
        /\ n < 30 /\ ~Structural(call.arg) => call.ret.complexity = "simple"

\* a text of exactly 200 characters without a structural word was found
\* "medium", and a short text with "PROCESS" would be "complex"
C19_Boundary ==
  /\ call.fn = "analyzePromptType"
  /\ TextLength(call.arg) = 200
  /\ ~Structural(call.arg)
  /\ call.ret.complexity = "medium"
  /\ AnalyzePromptType(<<"the", " ", "PROCESS">>).complexity = "complex"

\* the keyword groups in the order in which the type detection tests them
TypeGroups ==
  << [type |-> "coding",         keys |-> {"code", "program", "function"}],
     [type |-> "explanation",    keys |-> {"explain", "what is", "how does"}],
     [type |-> "creative",       keys |-> {"write", "create", "generate"}],
     [type |-> "analysis",       keys |-> {"analyze", "compare", "evaluate"}],
     [type |-> "transformation", keys |-> {"translate", "convert"}] >>

\* the groups with a keyword in the lower-case form of text
Matching(text) ==
  { g \in DOMAIN TypeGroups :
      \E key \in TypeGroups[g].keys : Includes(ToLowerCase(Flatten(text)), key) }

\* C20: the type that analyzePromptType returns is the type of the first
\* keyword group, in the order coding, explanation, creative, analysis,
\* transformation, that has a keyword in the lower-case text, and "general"
\* when no group has one.
C20_FirstGroupWins ==
  call.fn = "analyzePromptType" =>
    /\ call.ret.type \in
         {"general", "coding", "explanation", "creative", "analysis", "transformation"}
    /\ Matching(call.arg) = {} => call.ret.type = "general"
    /\ \A g \in Matching(call.arg) :
         (\A h \in Matching(call.arg) : g <= h) =>
           call.ret.type = TypeGroups[g].type

\* a text with a coding keyword and a creative keyword was found "coding"
C20_CodingBeforeCreative ==
  /\ call.fn = "analyzePromptType"
  /\ {1, 3} \subseteq Matching(call.arg)
  /\ call.ret.type = "coding"

\* the names of a list of techniques of selectOptimalTechniques
Names(techniques) == { techniques[k].name : k \in 1..Len(techniques) }

\* the text holds a role-setting phrase
RolePhrase(text) ==
  \E phrase \in {"you are", "act as"} : Includes(ToLowerCase(Flatten(text)), phrase)

\* C21: whatever the text, the optimization level and the maximum number of
\* techniques, the techniques selected for an instruction contain zero-shot,
\* and contain role-definition unless the text holds "you are" or "act as".
C21_Baseline ==
  /\ call.fn = "createOptimizationPrompt" =>
        /\ "Zero-shot Prompting" \in Names(call.ret.techniques)
        /\ ~RolePhrase(call.arg) => "Role Definition" \in Names(call.ret.techniques)
  /\ call.fn = "analyzePromptType" =>
        /\ \E k \in 1..Len(call.ret.techniques) : call.ret.techniques[k] = "zero-shot"
        /\ ~RolePhrase(call.arg) =>
              \E k \in 1..Len(call.ret.techniques) : call.ret.techniques[k] = "role-definition"

\* the list techniques holds the name t
Has(techniques, t) == \E k \in 1..Len(techniques) : techniques[k] = t

AdditionOrder ==
  <<"zero-shot", "role-definition", "chain-of-thought", "few-shot", "meta-prompting",
    "self-consistency">>

\* the first place of x in the list, or 0
FirstPlace(list, x) ==
  IF \E k \in 1..Len(list) : list[k] = x
  THEN CHOOSE k \in 1..Len(list) : list[k] = x /\ \A j \in 1..(k - 1) : list[j] # x
  ELSE 0

\* every entry of list is an entry of additions, and the entries of list
\* stand in the order of their first places in additions: no entry twice
InAdditionOrder(list, additions) ==
  /\ \A k \in 1..Len(list) : FirstPlace(additions, list[k]) > 0
  /\ \A j, k \in 1..Len(list) :
        j < k => FirstPlace(additions, list[j]) < FirstPlace(additions, list[k])

\* C23: whatever the text, the level and the maximum, the selected techniques
\* never hold a name twice, and they stand in the order in which they were
\* added (of a name added more than once, the first addition counts).
C23_NoNameTwice ==
  /\ call.fn = "createOptimizationPrompt" =>
        LET names     == [k \in 1..Len(call.ret.techniques) |-> call.ret.techniques[k].name]
            selected  == Selected(call.arg)
            additions == [k \in 1..Len(selected) |-> selected[k].name]
        IN  InAdditionOrder(names, additions)
  /\ call.fn = "analyzePromptType" =>
        InAdditionOrder(call.ret.techniques, AdditionOrder)

\* selectOptimalTechniques returned eight of more than eight additions
C23_ManyAdditions ==
  /\ call.fn = "createOptimizationPrompt"
  /\ Len(call.ret.techniques) = 8
  /\ Len(Selected(call.arg)) > 8

\* the names of a list of techniques, in the order of the list
NameList(techniques) == [k \in 1..Len(techniques) |-> techniques[k].name]

\* the entries of list that are in the set allowed, in the order of the list
Allowed(list, allowed) == SelectSeq(list, LAMBDA x : x \in allowed)

\* the first n entries of list
Leading(list, n) == SubSeq(list, 1, IF n < Len(list) THEN n ELSE Len(list))

\* C24, as stated: under the conservative level at most two techniques are
\* returned, and each is one of two allow-listed names (the baseline names;
\* the returned names are three, so no other two names do either).
C24_AllowListOfTwo ==
  (call.fn = "createOptimizationPrompt" /\ ConfiguredLevel(config) = "conservative") =>
    /\ Len(call.ret.techniques) <= 2
    /\ \A k \in 1..Len(call.ret.techniques) :
          call.ret.techniques[k].name \in {"Zero-shot Prompting", "Role Definition"}

\* C24, amended: under the conservative level the techniques returned are the
\* first two of the selected techniques named Zero-shot Prompting, Role
\* Definition or Context Setting, whatever the text and the maximum.
C24_AllowListOfThree ==
  (call.fn = "createOptimizationPrompt" /\ ConfiguredLevel(config) = "conservative") =>
    /\ Len(call.ret.techniques) <= 2
    /\ \A k \in 1..Len(call.ret.techniques) :
          call.ret.techniques[k].name
            \in {"Zero-shot Prompting", "Role Definition", "Context Setting"}
    /\ NameList(call.ret.techniques) =
          Leading(Allowed(NameList(Selected(call.arg)),
                          {"Zero-shot Prompting", "Role Definition", "Context Setting"}), 2)

\* a short text with a role-setting phrase and a question mark: the
\* conservative level returns Zero-shot Prompting and Context Setting
C24_ContextSetting ==
  /\ call.fn = "createOptimizationPrompt"
  /\ ConfiguredLevel(config) = "conservative"
  /\ Len(Selected(call.arg)) > 2
  /\ NameList(call.ret.techniques) = <<"Zero-shot Prompting", "Context Setting">>

\* list without the later occurrences of its entries
RECURSIVE FirstOccurrences(_)
FirstOccurrences(list) ==
  IF list = <<>> THEN <<>>
  ELSE LET front == FirstOccurrences(SubSeq(list, 1, Len(list) - 1))
           last  == list[Len(list)]
       IN  IF \E k \in 1..Len(front) : front[k] = last THEN front
           ELSE Append(front, last)

SpecificErrorTexts ==
  { "Failed to optimize prompt. " \o t :
      t \in {TimedOutText, UnreachableText, AuthFailedText, RateLimitedText, PaymentText} }
  \cup { "Error optimizing prompt: " \o t : t \in {FetchInvalidKeyText, FetchRateLimitedText} }
  \cup { MissingKeyText, FetchMissingKeyText }

C27_NonEmptyOptimized ==
  /\ \A k \in 1..Len(history) : TextLength(history[k].optimized) > 0
  /\ \A i \in Invs :
        (Extension /\ inv[i].got.kind = "ok" /\ Trim(inv[i].got.content) = <<>>) =>
          /\ inv[i].pc = "done"
          /\ inv[i].error = "Failed to optimize prompt. " \o NoPromptText
          /\ inv[i].appended = 0
          /\ inv[i].info = NoMessage

\* a reply of white space ended the invocation with the error message and
\* left the ledger empty
C27_BlankReply ==
  /\ Extension
  /\ inv[1].got.kind = "ok"
  /\ inv[1].got.content = <<" ">>
  /\ inv[1].error = "Failed to optimize prompt. " \o NoPromptText
  /\ history = <<>>

\* C28: the answer "Yes" leaves the ledger empty, whatever was pushed while
\* the warning was open, and leaves the pending optimizations pending; an
\* optimization that completes appends its own record to the ledger as it is
\* then, so after a confirmed clear the ledger holds the records of the
\* optimizations completed since.
C28_ClearWhilePending ==
  [][ /\ ClearAnswer("Yes") => (history' = <<>> /\ inv' = inv)
      /\ \A i \in Invs :
           (inv[i].pc = "request" /\ inv'[i].appended = inv[i].appended + 1) =>
             /\ Len(history') = Len(history) + 1
             /\ SubSeq(history', 1, Len(history)) = history
             /\ history'[Len(history')].original = inv[i].text
             /\ history'[Len(history')].optimized = inv'[i].result ]_vars

\* the second invocation completed and its record was cleared while the
\* first, started before it, was pending; the ledger holds the record of the
\* first alone
C28_PendingAppendedAfter ==
  /\ ~clearDialog
  /\ inv[1].appended = 1
  /\ inv[2].appended = 1
  /\ inv[1].text # inv[2].text
  /\ Len(history) = 1
  /\ history[1].original = inv[1].text

Title(t) ==
  CASE t = "zero-shot"        -> "Zero-shot Prompting: "
    [] t = "role-definition"  -> "Role Definition: "
    [] t = "chain-of-thought" -> "Chain-of-Thought: "
    [] t = "few-shot"         -> "Few-shot Prompting: "
    [] t = "meta-prompting"   -> "Meta Prompting: "
    [] t = "self-consistency" -> "Self-Consistency: "
    [] OTHER                  -> "?"

\* the number of places of str at which key starts
Occurrences(str, key) ==
  Cardinality({p \in 1..(Len(str) - Len(key) + 1) : SubSeq(str, p, p + Len(key) - 1) = key})

\* C30: the instruction of createSmartOptimizationPrompt lists one line per
\* technique that analyzePromptType returned, in the order returned, each the
\* description of that technique and none undefined.
C30_EveryTechniqueDescribed ==
  call.fn = "createSmartOptimizationPrompt" =>
    LET techniques == call.ret.analysis.techniques
        lines      == call.ret.lines
        prompt     == call.ret.prompt
    IN  /\ Len(lines) = Len(techniques)
        /\ \A k \in 1..Len(lines) :
              /\ lines[k] # "undefined"
              /\ SubSeq(lines[k], 1, Len(Title(techniques[k]))) = Title(techniques[k])
              /\ Includes(prompt, "\n- " \o lines[k] \o "\n")
        /\ Occurrences(prompt, "\n- ") = Len(techniques)
        /\ ~Includes(prompt, "undefined")

\* an instruction that lists five techniques, self-consistency last
C30_FiveDescribed ==
  /\ call.fn = "createSmartOptimizationPrompt"
  /\ Len(call.ret.analysis.techniques) = 5
  /\ call.ret.lines[5] = "Self-Consistency: Generate multiple perspectives"

====
